---- MODULE Spec2Model ----
(***************************************************************************)
(* Model of the chat / document data layer (lib/db/queries over the Prisma *)
(* schema), the document-versions route handler and the suggestion         *)
(* decoration builder.                                                     *)
(*                                                                         *)
(* Tables are sets of rows.  Every operation is one atomic action (calls   *)
(* do not overlap) and records what it was called with and what it         *)
(* returned in `last`.                                                     *)
(***************************************************************************)
EXTENDS Integers, Sequences, FiniteSets, TLC

VARIABLES chats, messages, votes, streams, documents, versions, now, last

vars == <<chats, messages, votes, streams, documents, versions, now, last>>

(***************************************************************************)
(* Universes of the inputs.                                                *)
(***************************************************************************)
Null == "null"

Users == {"u1", "u2"}
ChatIds == {"c1", "c2"}
MessageIds == {"m1", "m2"}
StreamIds == {"s1"}
DocIds == {"d1", "d2"}
VersionIds == {"v1", "v2"}
Kinds == {"text", "code"}
DocTitles == {"B"}
VersionTitles == {"", "A"}
RichContents == {Null, "rich"}
\* Authors of document versions (a version need not be written by the owner).
VersionAuthors == {"u2"}

\* Largest value of the clock (Date values are 1..MaxTime).
MaxTime == 2
\* Largest page size asked of getChatsByUserId.
MaxLimit == 2
\* Longest suggestion list handed to createDecorations.
MaxSuggestions == 2
\* Largest document position of a suggestion.
MaxPos == 2
\* Most vote rows stored while voting is explored.
MaxVotes == 2

Times == 1..MaxTime

\* All enumerations of the finite set S, each element once.
Orderings(S) ==
  {s \in [1..Cardinality(S) -> S] : \A i, j \in 1..Cardinality(S) : s[i] = s[j] => i = j}

Call(op, arg, res) == [op |-> op, arg |-> arg, res |-> res]

\* A thrown ChatSDKError, as the caller sees it.
Thrown(code) == [ok |-> FALSE, code |-> code]

Init ==
  /\ chats = {}
  /\ messages = {}
  /\ votes = {}
  /\ streams = {}
  /\ documents = {}
  /\ versions = {}
  /\ now = 1
  /\ last = Call("init", Null, Null)

(***************************************************************************)
(* Documents and the document-versions route                               *)
(***************************************************************************)

\* prisma.document.create: the id is the primary key.
saveDocument(id, title, kind, content, userId) ==
  /\ IF \E d \in documents : d.id = id
       THEN /\ UNCHANGED documents
            /\ last' = Call("saveDocument", [id |-> id], Thrown("bad_request:database"))
       ELSE /\ documents' = documents \cup
                 {[id |-> id, userId |-> userId, title |-> title, kind |-> kind,
                   content |-> content]}
            /\ last' = Call("saveDocument", [id |-> id], [ok |-> TRUE])
  /\ UNCHANGED <<chats, messages, votes, streams, versions, now>>

\* A DocumentVersion row is stored for an existing document (foreign key).
saveDocumentVersion(id, documentId, userId, title, contentRich) ==
  /\ IF (\E v \in versions : v.id = id) \/ ~(\E d \in documents : d.id = documentId)
       THEN /\ UNCHANGED versions
            /\ last' = Call("saveDocumentVersion", [id |-> id], Thrown("bad_request:database"))
       ELSE /\ versions' = versions \cup
                 {[id |-> id, documentId |-> documentId, userId |-> userId,
                   title |-> title, contentRich |-> contentRich]}
            /\ last' = Call("saveDocumentVersion", [id |-> id], [ok |-> TRUE])
  /\ UNCHANGED <<chats, messages, votes, streams, documents, now>>

\* A row a findFirst found, or its null.
Found(row) == [found |-> TRUE, row |-> row]
NotFound == [found |-> FALSE]

\* findFirst where id: the row or null.
getDocumentById(id) ==
  IF \E d \in documents : d.id = id
    THEN Found(CHOOSE d \in documents : d.id = id)
    ELSE NotFound

\* The lists getDocumentVersions may return: the versions of the document, in
\* an order the query decides.
getDocumentVersions(documentId) ==
  Orderings({v \in versions : v.documentId = documentId})

StatusOf(code) ==
  CASE code = "bad_request:api" -> 400
    [] code = "unauthorized:document" -> 401
    [] code = "forbidden:document" -> 403
    [] code = "not_found:document" -> 404

\* new ChatSDKError(code).toResponse(): an error body, no document in it.
toResponse(code, calls) ==
  [status |-> StatusOf(code), code |-> code, body |-> <<>>, calls |-> calls]

\* a || b of JavaScript on strings and null.
OrElse(a, b) == IF a = Null \/ a = "" THEN b ELSE a

\* Fault: the version's own title is used even when it is empty.
versionDocument_noTitleFallback(version, document) ==
  [id |-> version.documentId,
   title |-> version.title,
   content |-> OrElse(version.contentRich, ""),
   kind |-> document.kind,
   userId |-> version.userId]

\* versions.map((version) => ({...})): one version in document format.
versionDocument(version, document) ==
  [id |-> version.documentId,
   title |-> OrElse(version.title, document.title),
   content |-> OrElse(version.contentRich, ""),
   kind |-> document.kind,
   userId |-> version.userId]

\* The session values auth() yields: none, one without a user, or a user's.
NoUser == "nouser"
Sessions == {Null, NoUser} \cup Users

\* The documentId values searchParams.get yields: absent, empty, or an id.
DocumentIdParams == {Null, ""} \cup DocIds

\* Fault: the ownership comparison is left out.
precondition_noOwnerCheck(documentId, session) ==
  IF documentId = Null \/ documentId = "" THEN "bad_request:api"
  ELSE IF session = Null \/ session = NoUser THEN "unauthorized:document"
  ELSE IF ~getDocumentById(documentId).found THEN "not_found:document"
  ELSE "ok"

\* Fault: the session is checked before the parameter.
precondition_sessionFirst(documentId, session) ==
  IF session = Null \/ session = NoUser THEN "unauthorized:document"
  ELSE IF documentId = Null \/ documentId = "" THEN "bad_request:api"
  ELSE IF ~getDocumentById(documentId).found THEN "not_found:document"
  ELSE IF getDocumentById(documentId).row.userId # session THEN "forbidden:document"
  ELSE "ok"

\* The checks of GET in the order the handler makes them: the error code of
\* the first that fails, or "ok".
precondition(documentId, session) ==
  IF documentId = Null \/ documentId = "" THEN "bad_request:api"
  ELSE IF session = Null \/ session = NoUser THEN "unauthorized:document"
  ELSE IF ~getDocumentById(documentId).found THEN "not_found:document"
  ELSE IF getDocumentById(documentId).row.userId # session THEN "forbidden:document"
  ELSE "ok"

\* The awaited calls the handler has made when it returns with `code`.
callsMade(code) ==
  CASE code = "bad_request:api" -> <<>>
    [] code = "unauthorized:document" -> <<"auth">>
    [] code \in {"not_found:document", "forbidden:document"} -> <<"auth", "getDocumentById">>
    [] code = "ok" -> <<"auth", "getDocumentById", "getDocumentVersions">>

\* The response of GET, `fetched` being what getDocumentVersions returned.
GETResponse(documentId, session, fetched) ==
  LET code == precondition(documentId, session) IN
  IF code # "ok"
    THEN toResponse(code, callsMade(code))
    ELSE LET document == getDocumentById(documentId).row
             versionDocuments == [i \in 1..Len(fetched) |-> versionDocument(fetched[i], document)]
         IN [status |-> 200, code |-> "ok",
             body |-> versionDocuments \o <<document>>,
             calls |-> callsMade(code)]

GET(documentId, session) ==
  /\ \E fetched \in (IF precondition(documentId, session) = "ok"
                       THEN getDocumentVersions(documentId) ELSE {<<>>}) :
       last' = Call("GET", [documentId |-> documentId, session |-> session, fetched |-> fetched],
                    GETResponse(documentId, session, fetched))
  /\ UNCHANGED <<chats, messages, votes, streams, documents, versions, now>>

NextDoc ==
  \/ \E id \in DocIds, t \in DocTitles, k \in Kinds, u \in Users :
       saveDocument(id, t, k, "text of the document", u)
  \/ \E id \in VersionIds, d \in DocIds, u \in VersionAuthors, t \in VersionTitles, c \in RichContents :
       saveDocumentVersion(id, d, u, t, c)
  \/ \E p \in DocumentIdParams, s \in Sessions : GET(p, s)

SpecDoc == Init /\ [][NextDoc]_vars

\* The session of the last GET is a user's and that user owns the requested
\* document.
OwnerAsks ==
  /\ last.arg.session \in Users
  /\ \E d \in documents : d.id = last.arg.documentId /\ d.userId = last.arg.session

\* C1: GET answers 200 with documents only when the session has a user whose
\* id is the userId of the requested document; in every other case it answers
\* with an error status and a body holding no document.
C1_OnlyOwnerReads ==
  last.op = "GET" =>
    /\ last.res.status = 200 => OwnerAsks
    /\ ~OwnerAsks => last.res.status # 200 /\ last.res.body = <<>>

C1_Witness ==
  /\ last.op = "GET"
  /\ last.res.status = 200
  /\ Len(last.res.body) = 3
  /\ \E v \in versions : v.documentId = last.arg.documentId /\ v.userId # last.arg.session

ErrorCodes ==
  {"bad_request:api", "unauthorized:document", "not_found:document", "forbidden:document"}

\* C2: GET returns the error of the first failing check, in the order missing
\* documentId (before the session is asked for), no session user, no such
\* document, document of another user; each request gets exactly one of the
\* four errors or the 200 response.
C2_FirstFailingCheck ==
  last.op = "GET" =>
    LET a == last.arg
        r == last.res
        missing == a.documentId \in {Null, ""}
        anonymous == a.session \notin Users
        exists == \E d \in documents : d.id = a.documentId
        owned == \E d \in documents : d.id = a.documentId /\ d.userId = a.session
    IN /\ missing => r.code = "bad_request:api" /\ r.calls = <<>>
       /\ ~missing /\ anonymous => r.code = "unauthorized:document"
       /\ ~missing /\ ~anonymous /\ ~exists => r.code = "not_found:document"
       /\ ~missing /\ ~anonymous /\ exists /\ ~owned => r.code = "forbidden:document"
       /\ ~missing /\ ~anonymous /\ exists /\ owned => r.code = "ok"
       /\ r.code \in ErrorCodes \cup {"ok"}
       /\ r.code = "ok" <=> r.status = 200
       /\ r.code \in ErrorCodes => r.status \in {400, 401, 403, 404}

C2_Witness ==
  /\ last.op = "GET"
  /\ last.arg.documentId = Null
  /\ last.arg.session = Null
  /\ last.res.code = "bad_request:api"
  /\ documents # {}

\* C3: a successful GET returns one entry per stored version of the document,
\* in the order they were fetched, then the current document last; each
\* version entry has the requested id, the current document's kind, and the
\* version's title or, when that is empty, the current document's title.
C3_VersionsThenDocument ==
  (last.op = "GET" /\ last.res.status = 200) =>
    LET a == last.arg
        body == last.res.body
        stored == {v \in versions : v.documentId = a.documentId}
        current == CHOOSE d \in documents : d.id = a.documentId
    IN /\ Len(body) = Cardinality(stored) + 1
       /\ body[Len(body)] = current
       /\ {a.fetched[i] : i \in 1..Len(a.fetched)} = stored
       /\ \A i \in 1..(Len(body) - 1) :
            /\ body[i].id = a.documentId
            /\ body[i].kind = current.kind
            /\ body[i].userId = a.fetched[i].userId
            /\ body[i].title = IF a.fetched[i].title \in {Null, ""}
                                 THEN current.title ELSE a.fetched[i].title

C3_Witness ==
  /\ last.op = "GET"
  /\ last.res.status = 200
  /\ Len(last.res.body) = 3
  /\ last.arg.fetched[1].title = ""
  /\ last.arg.fetched[2].title = "A"
  /\ last.res.body[1].title = "B"

(***************************************************************************)
(* Chats, messages, votes and streams                                      *)
(***************************************************************************)

chatExists(id) == \E c \in chats : c.id = id
messageExists(id) == \E m \in messages : m.id = id

\* prisma.chat.create with createdAt: new Date(); the id is the primary key.
saveChat(id, userId) ==
  /\ IF chatExists(id)
       THEN /\ UNCHANGED chats
            /\ last' = Call("saveChat", [id |-> id, userId |-> userId],
                            Thrown("bad_request:database"))
       ELSE /\ chats' = chats \cup {[id |-> id, userId |-> userId, createdAt |-> now]}
            /\ last' = Call("saveChat", [id |-> id, userId |-> userId], [ok |-> TRUE])
  /\ UNCHANGED <<messages, votes, streams, documents, versions, now>>

\* The clock new Date() reads moves on.
Tick ==
  /\ now < MaxTime
  /\ now' = now + 1
  /\ last' = Call("tick", Null, Null)
  /\ UNCHANGED <<chats, messages, votes, streams, documents, versions>>

\* prisma.message.createMany: one insert of all rows, refused as a whole when
\* an id is taken (primary key) or a chat is missing (foreign key).
saveMessages(rows) ==
  /\ IF \/ \E r \in rows : messageExists(r.id) \/ ~chatExists(r.chatId)
        \/ \E r, q \in rows : r # q /\ r.id = q.id
       THEN /\ UNCHANGED messages
            /\ last' = Call("saveMessages", Null, Thrown("bad_request:database"))
       ELSE /\ messages' = messages \cup rows
            /\ last' = Call("saveMessages", Null, [ok |-> TRUE])
  /\ UNCHANGED <<chats, votes, streams, documents, versions, now>>

\* prisma.stream.create: id is the primary key, chatId a foreign key.
createStreamId(streamId, chatId) ==
  /\ IF (\E st \in streams : st.id = streamId) \/ ~chatExists(chatId)
       THEN /\ UNCHANGED streams
            /\ last' = Call("createStreamId", [streamId |-> streamId, chatId |-> chatId],
                            Thrown("bad_request:database"))
       ELSE /\ streams' = streams \cup {[id |-> streamId, chatId |-> chatId]}
            /\ last' = Call("createStreamId", [streamId |-> streamId, chatId |-> chatId],
                            [ok |-> TRUE])
  /\ UNCHANGED <<chats, messages, votes, documents, versions, now>>

\* The rows of votes with this primary key (chatId, messageId, userId).
votesOf(chatId, messageId, userId) ==
  {v \in votes : v.chatId = chatId /\ v.messageId = messageId /\ v.userId = userId}

\* Fault: the row to update is looked up by (chatId, messageId) alone.
voteMessage_anyUser(chatId, messageId, userId, type) ==
  /\ IF votesOf(chatId, messageId, userId) # {}
       THEN /\ votes' = {IF v.chatId = chatId /\ v.messageId = messageId
                           THEN [v EXCEPT !.isUpvoted = (type = "up")] ELSE v : v \in votes}
            /\ last' = Call("voteMessage",
                            [chatId |-> chatId, messageId |-> messageId, userId |-> userId,
                             type |-> type], [ok |-> TRUE, path |-> "update"])
       ELSE IF chatExists(chatId) /\ messageExists(messageId)
         THEN /\ votes' = votes \cup {[chatId |-> chatId, messageId |-> messageId,
                                       userId |-> userId, isUpvoted |-> (type = "up")]}
              /\ last' = Call("voteMessage",
                              [chatId |-> chatId, messageId |-> messageId, userId |-> userId,
                               type |-> type], [ok |-> TRUE, path |-> "create"])
         ELSE /\ UNCHANGED votes
              /\ last' = Call("voteMessage",
                              [chatId |-> chatId, messageId |-> messageId, userId |-> userId,
                               type |-> type], Thrown("bad_request:database"))
  /\ UNCHANGED <<chats, messages, streams, documents, versions, now>>

\* voteMessage: update the row of the triple when there is one, else create
\* it; the create is refused when the chat or the message is missing.
voteMessage(chatId, messageId, userId, type) ==
  /\ IF votesOf(chatId, messageId, userId) # {}
       THEN /\ votes' = {IF v \in votesOf(chatId, messageId, userId)
                           THEN [v EXCEPT !.isUpvoted = (type = "up")] ELSE v : v \in votes}
            /\ last' = Call("voteMessage",
                            [chatId |-> chatId, messageId |-> messageId, userId |-> userId,
                             type |-> type], [ok |-> TRUE, path |-> "update"])
       ELSE IF chatExists(chatId) /\ messageExists(messageId)
         THEN /\ votes' = votes \cup {[chatId |-> chatId, messageId |-> messageId,
                                       userId |-> userId, isUpvoted |-> (type = "up")]}
              /\ last' = Call("voteMessage",
                              [chatId |-> chatId, messageId |-> messageId, userId |-> userId,
                               type |-> type], [ok |-> TRUE, path |-> "create"])
         ELSE /\ UNCHANGED votes
              /\ last' = Call("voteMessage",
                              [chatId |-> chatId, messageId |-> messageId, userId |-> userId,
                               type |-> type], Thrown("bad_request:database"))
  /\ UNCHANGED <<chats, messages, streams, documents, versions, now>>

\* Vote.message is onDelete: Cascade: the votes left once the messages with
\* these ids are deleted.
cascadeVotes(vs, messageIds) == {v \in vs : v.messageId \notin messageIds}

\* deleteChatById: votes, messages and streams of the chat go, each deleteMany
\* on its own, then the chat; chat.delete throws when there is no such chat.
deleteChatById(id) ==
  LET votes1 == {v \in votes : v.chatId # id}
      gone == {m.id : m \in {m \in messages : m.chatId = id}}
  IN /\ votes' = cascadeVotes(votes1, gone)
     /\ messages' = {m \in messages : m.chatId # id}
     /\ streams' = {st \in streams : st.chatId # id}
     /\ IF chatExists(id)
          THEN /\ chats' = {c \in chats : c.id # id}
               /\ last' = Call("deleteChatById", [id |-> id], [ok |-> TRUE])
          ELSE /\ UNCHANGED chats
               /\ last' = Call("deleteChatById", [id |-> id], Thrown("bad_request:database"))
     /\ UNCHANGED <<documents, versions, now>>

\* deleteMessagesByChatIdAfterTimestamp: the messages of the chat created at
\* or after the timestamp go, their votes of this chat first; nothing is
\* touched and undefined is returned when there is no such message.
deleteMessagesByChatIdAfterTimestamp(chatId, timestamp) ==
  LET messagesToDelete == {m \in messages : m.chatId = chatId /\ m.createdAt >= timestamp}
      messageIds == {m.id : m \in messagesToDelete}
      arg == [chatId |-> chatId, timestamp |-> timestamp]
  IN /\ IF messageIds # {}
          THEN /\ votes' = cascadeVotes(
                             {v \in votes : ~(v.chatId = chatId /\ v.messageId \in messageIds)},
                             messageIds)
               /\ messages' = {m \in messages : ~(m.chatId = chatId /\ m.id \in messageIds)}
               /\ last' = Call("deleteMessagesByChatIdAfterTimestamp", arg,
                               [ok |-> TRUE, defined |-> TRUE, count |-> Cardinality(messageIds)])
          ELSE /\ UNCHANGED <<votes, messages>>
               /\ last' = Call("deleteMessagesByChatIdAfterTimestamp", arg,
                               [ok |-> TRUE, defined |-> FALSE, count |-> 0])
     /\ UNCHANGED <<chats, streams, documents, versions, now>>

\* The error a caller sees when `inner` is thrown inside the try block of a
\* query function: the catch replaces every error.
rethrown(inner, replacement) == Thrown(replacement)

\* Fault: the cursor comparison admits the cursor's own date.
matchesCursor_inclusive(c, op, pivot) ==
  CASE op = "gt" -> c.createdAt >= pivot
    [] op = "lt" -> c.createdAt <= pivot
    [] op = "none" -> TRUE

\* The whereCondition of query: createdAt gt / lt the cursor's, or none.
matchesCursor(c, op, pivot) ==
  CASE op = "gt" -> c.createdAt > pivot
    [] op = "lt" -> c.createdAt < pivot
    [] op = "none" -> TRUE

\* s is in descending createdAt order.
IsDescending(s) == \A i, j \in 1..Len(s) : i < j => s[i].createdAt >= s[j].createdAt

Min(a, b) == IF a < b THEN a ELSE b

\* query(whereCondition): the lists findMany may return for where userId and
\* the condition, orderBy createdAt desc, take extendedLimit (rows of equal
\* date come in an order the database decides).
query(id, op, pivot, extendedLimit) ==
  LET matching == {c \in chats : c.userId = id /\ matchesCursor(c, op, pivot)}
  IN {SubSeq(s, 1, Min(extendedLimit, Len(s))) :
        s \in {o \in Orderings(matching) : IsDescending(o)}}

\* Fault: the extra row fetched to detect a further page is returned too.
page_noSlice(filteredChats, limit) ==
  [ok |-> TRUE, chats |-> filteredChats, hasMore |-> Len(filteredChats) > limit]

\* The value getChatsByUserId returns for the rows the query gave.
page(filteredChats, limit) ==
  LET hasMore == Len(filteredChats) > limit
  IN [ok |-> TRUE,
      chats |-> IF hasMore THEN SubSeq(filteredChats, 1, limit) ELSE filteredChats,
      hasMore |-> hasMore]

selectedChat(id) == CHOOSE c \in chats : c.id = id

\* The outcomes of getChatsByUserId: a page, or the error the caller sees.
getChatsByUserIdResults(id, limit, startingAfter, endingBefore) ==
  LET extendedLimit == limit + 1 IN
  IF startingAfter # Null
    THEN IF ~chatExists(startingAfter)
           THEN {rethrown("not_found:database", "bad_request:database")}
           ELSE {page(f, limit) :
                   f \in query(id, "gt", selectedChat(startingAfter).createdAt, extendedLimit)}
  ELSE IF endingBefore # Null
    THEN IF ~chatExists(endingBefore)
           THEN {rethrown("not_found:database", "bad_request:database")}
           ELSE {page(f, limit) :
                   f \in query(id, "lt", selectedChat(endingBefore).createdAt, extendedLimit)}
  ELSE {page(f, limit) : f \in query(id, "none", 0, extendedLimit)}

getChatsByUserId(id, limit, startingAfter, endingBefore) ==
  /\ \E r \in getChatsByUserIdResults(id, limit, startingAfter, endingBefore) :
       last' = Call("getChatsByUserId",
                    [id |-> id, limit |-> limit, startingAfter |-> startingAfter,
                     endingBefore |-> endingBefore], r)
  /\ UNCHANGED <<chats, messages, votes, streams, documents, versions, now>>

\* Paging through a user's history: three chats, two owners, a moving clock.
HistoryChatIds == {"c1", "c2", "c3"}
Cursors == {Null} \cup HistoryChatIds

NextChats ==
  \/ \E id \in HistoryChatIds, u \in Users : saveChat(id, u)
  \/ Tick
  \/ \E u \in Users, l \in 0..MaxLimit, sa \in Cursors, eb \in Cursors :
       getChatsByUserId(u, l, sa, eb)

SpecChats == Init /\ [][NextChats]_vars

\* The rows a saveMessages call may carry.
MessageRows == [id : MessageIds, chatId : ChatIds, createdAt : Times]
MessageBatches == {b \in SUBSET MessageRows : Cardinality(b) \in 1..2}

\* Voting: two chats, two messages, two voters; at most MaxVotes vote rows.
NextVote ==
  \/ \E id \in ChatIds : saveChat(id, "u1")
  \/ \E r \in MessageRows : r.createdAt = 1 /\ saveMessages({r})
  \/ \E c \in ChatIds, m \in MessageIds, u \in Users, t \in {"up", "down"} :
       /\ votesOf(c, m, u) # {} \/ Cardinality(votes) < MaxVotes
       /\ voteMessage(c, m, u, t)

SpecVote == Init /\ [][NextVote]_vars

\* Deleting: chats with messages of several dates, votes and streams.
NextDelete ==
  \/ \E id \in ChatIds : saveChat(id, "u1")
  \/ \E b \in MessageBatches : saveMessages(b)
  \/ \E st \in StreamIds, c \in ChatIds : createStreamId(st, c)
  \/ \E c \in ChatIds, m \in MessageIds, t \in {"up", "down"} : voteMessage(c, m, "u1", t)
  \/ \E id \in ChatIds : deleteChatById(id)
  \/ \E c \in ChatIds, t \in Times : deleteMessagesByChatIdAfterTimestamp(c, t)

SpecDelete == Init /\ [][NextDelete]_vars

(***************************************************************************)
(* Suggestion decorations                                                  *)
(***************************************************************************)

SuggestionIds == {"g1", "g2"}
Positions == 0..MaxPos
UISuggestions == [id : SuggestionIds, selectionStart : Positions, selectionEnd : Positions]

\* Decoration.inline(from, to, {class: 'suggestion-highlight'}, spec)
inlineDecoration(from, to, suggestionId) ==
  [kind |-> "inline", from |-> from, to |-> to, class |-> "suggestion-highlight",
   suggestionId |-> suggestionId, type |-> "highlight"]

\* Decoration.widget(pos, toDOM, spec)
widgetDecoration(pos, suggestionId) ==
  [kind |-> "widget", from |-> pos, to |-> pos, class |-> "",
   suggestionId |-> suggestionId, type |-> "widget"]

\* Fault: the widget is anchored at the end of the selection.
decorationsOf_widgetAtEnd(suggestion) ==
  << inlineDecoration(suggestion.selectionStart, suggestion.selectionEnd, suggestion.id),
     widgetDecoration(suggestion.selectionEnd, suggestion.id) >>

\* The two decorations one turn of the loop pushes.
decorationsOf(suggestion) ==
  << inlineDecoration(suggestion.selectionStart, suggestion.selectionEnd, suggestion.id),
     widgetDecoration(suggestion.selectionStart, suggestion.id) >>

\* The decorations array after the loop over the first n suggestions.
RECURSIVE decorationsAfter(_, _)
decorationsAfter(suggestions, n) ==
  IF n = 0 THEN <<>>
  ELSE decorationsAfter(suggestions, n - 1) \o decorationsOf(suggestions[n])

\* createDecorations: the array it hands to DecorationSet.create.
createDecorations(suggestions) ==
  /\ last' = Call("createDecorations", suggestions,
                  decorationsAfter(suggestions, Len(suggestions)))
  /\ UNCHANGED <<chats, messages, votes, streams, documents, versions, now>>

SuggestionLists == UNION {[1..n -> UISuggestions] : n \in 0..MaxSuggestions}

\* The editor holds some list of suggestions to project.
InitDeco ==
  /\ chats = {} /\ messages = {} /\ votes = {} /\ streams = {}
  /\ documents = {} /\ versions = {} /\ now = 1
  /\ \E suggestions \in SuggestionLists : last = Call("suggestions", suggestions, Null)

NextDeco == last.op = "suggestions" /\ createDecorations(last.arg)

SpecDeco == InitDeco /\ [][NextDeco]_vars

(***************************************************************************)
(* The diff view: diff marks and the change counts                         *)
(***************************************************************************)

\* The values of DiffType, and the default of the mark's type attribute.
DiffTypeInserted == "Inserted"
DiffTypeDeleted == "Deleted"
DiffTypeUnchanged == "Unchanged"
MarkTypes == {DiffTypeInserted, DiffTypeDeleted, DiffTypeUnchanged, ""}

\* A run of text of the diffed document carries a diffMark or none.
NoMark == "none"
TextRuns == MarkTypes \cup {NoMark}

\* Longest diffed document, in runs of text.
MaxRuns == 3

\* Fault: the fall-through branch reuses the inserted class.
toDOM_defaultInserted(type) ==
  IF type = DiffTypeInserted
    THEN [tag |-> "span", class |-> "diff-inserted", dataDiff |-> "inserted"]
  ELSE IF type = DiffTypeDeleted
    THEN [tag |-> "span", class |-> "diff-deleted", dataDiff |-> "deleted"]
  ELSE [tag |-> "span", class |-> "diff-inserted", dataDiff |-> ""]

\* diffMark.toDOM: the element a mark of this type is rendered as.
toDOM(type) ==
  IF type = DiffTypeInserted
    THEN [tag |-> "span", class |-> "diff-inserted", dataDiff |-> "inserted"]
  ELSE IF type = DiffTypeDeleted
    THEN [tag |-> "span", class |-> "diff-deleted", dataDiff |-> "deleted"]
  ELSE [tag |-> "span", class |-> "", dataDiff |-> ""]

\* The elements the view puts under the editor element for the first n runs:
\* the paragraph, then one element per marked run, as toDOM says.
RECURSIVE rendered(_, _)
rendered(runs, n) ==
  IF n = 0 THEN << [tag |-> "p", class |-> "", dataDiff |-> ""] >>
  ELSE IF runs[n] = NoMark THEN rendered(runs, n - 1)
  ELSE Append(rendered(runs, n - 1), toDOM(runs[n]))

\* element.querySelectorAll('.' + class).length
querySelectorAllLength(element, class) ==
  Cardinality({i \in 1..Len(element) : element[i].class = class})

\* Fault: both counts query the inserted class.
countChanges_sameSelector(element) ==
  [insertions |-> querySelectorAllLength(element, "diff-inserted"),
   deletions |-> querySelectorAllLength(element, "diff-inserted")]

countChanges(element) ==
  [insertions |-> querySelectorAllLength(element, "diff-inserted"),
   deletions |-> querySelectorAllLength(element, "diff-deleted")]

\* new EditorView(editorRef.current, {state}): the diffed document is rendered.
renderDiffView ==
  /\ last.op = "diffedDoc"
  /\ last' = Call("EditorView", [runs |-> last.arg],
                  [element |-> rendered(last.arg, Len(last.arg))])
  /\ UNCHANGED <<chats, messages, votes, streams, documents, versions, now>>

\* The timer of the effect fires: setStats(countChanges(editorRef.current)).
countRenderedChanges ==
  /\ last.op = "EditorView"
  /\ last' = Call("countChanges", [runs |-> last.arg.runs, element |-> last.res.element],
                  countChanges(last.res.element))
  /\ UNCHANGED <<chats, messages, votes, streams, documents, versions, now>>

DiffedDocs == UNION {[1..n -> TextRuns] : n \in 0..MaxRuns}

\* computeDiff has produced some diffed document.
InitDiff ==
  /\ chats = {} /\ messages = {} /\ votes = {} /\ streams = {}
  /\ documents = {} /\ versions = {} /\ now = 1
  /\ \E runs \in DiffedDocs : last = Call("diffedDoc", runs, Null)

NextDiff == renderDiffView \/ countRenderedChanges

SpecDiff == InitDiff /\ [][NextDiff]_vars

(***************************************************************************)
(* The message migration: the order the messages of a chat are taken in   *)
(***************************************************************************)

\* Most deprecated messages the batch query returns.
MaxMessages == 3

\* role and content (the types of its parts) of a deprecated message.
MessageShapes ==
  { [role |-> "assistant", content |-> <<"text", "tool-call">>],
    [role |-> "assistant", content |-> <<"text">>],
    [role |-> "tool", content |-> <<"tool-result">>],
    [role |-> "tool", content |-> <<"text">>],
    [role |-> "user", content |-> <<"text">>] }

\* The createdAt values of the deprecated messages: an earlier and a later one.
MessageDates == {1, 2}

MessagesDeprecated ==
  {[chatId |-> c, role |-> sh.role, content |-> sh.content, createdAt |-> t] :
     c \in ChatIds, sh \in MessageShapes, t \in MessageDates}

\* content.some((contentPart) => contentPart.type === type)
some(content, type) == \E k \in 1..Len(content) : content[k] = type

\* Fault: every assistant message gets rank 0.
getMessageRank_anyAssistant(message) ==
  IF message.role = "assistant" THEN 0
  ELSE IF message.role = "tool" /\ some(message.content, "tool-result") THEN 1
  ELSE 3

getMessageRank(message) ==
  IF message.role = "assistant" /\ some(message.content, "tool-call") THEN 0
  ELSE IF message.role = "tool" /\ some(message.content, "tool-result") THEN 1
  ELSE IF message.role = "assistant" THEN 2
  ELSE 3

\* The comparator handed to sort: the difference of the dates, else of the ranks.
compareMessages(a, b) ==
  LET differenceInTime == a.createdAt - b.createdAt
  IN IF differenceInTime # 0 THEN differenceInTime
     ELSE getMessageRank(a) - getMessageRank(b)

\* x put into the sorted list s after every element that does not compare
\* greater (Array.prototype.sort is stable).
RECURSIVE insertSorted(_, _)
insertSorted(s, x) ==
  IF s = <<>> THEN <<x>>
  ELSE IF compareMessages(s[Len(s)], x) <= 0 THEN Append(s, x)
  ELSE Append(insertSorted(SubSeq(s, 1, Len(s) - 1), x), s[Len(s)])

\* s.sort(compareMessages) of the first n elements.
RECURSIVE sortMessages(_, _)
sortMessages(s, n) ==
  IF n = 0 THEN <<>> ELSE insertSorted(sortMessages(s, n - 1), s[n])

\* allMessages.filter((message) => message.chatId === chatId)
RECURSIVE filterByChat(_, _, _)
filterByChat(s, n, chatId) ==
  IF n = 0 THEN <<>>
  ELSE IF s[n].chatId = chatId THEN Append(filterByChat(s, n - 1, chatId), s[n])
  ELSE filterByChat(s, n - 1, chatId)

\* One turn of the loop over the chats of a batch: the messages of the chat in
\* the order the loop over them takes them.
migrateChat(chatId) ==
  /\ last.op = "allMessages"
  /\ LET ofChat == filterByChat(last.arg, Len(last.arg), chatId)
     IN last' = Call("migrateChat", [chatId |-> chatId, allMessages |-> last.arg],
                     [messages |-> sortMessages(ofChat, Len(ofChat))])
  /\ UNCHANGED <<chats, messages, votes, streams, documents, versions, now>>

\* The raw query has returned the deprecated messages of the batch.
InitMigrate ==
  /\ chats = {} /\ messages = {} /\ votes = {} /\ streams = {}
  /\ documents = {} /\ versions = {} /\ now = 1
  /\ \E all \in UNION {[1..n -> MessagesDeprecated] : n \in 0..MaxMessages} :
       last = Call("allMessages", all, Null)

NextMigrate == \E c \in ChatIds : migrateChat(c)

SpecMigrate == InitMigrate /\ [][NextMigrate]_vars

(***************************************************************************)
(* Properties of the chat queries                                          *)
(***************************************************************************)

OfCall(v, a) == v.chatId = a.chatId /\ v.messageId = a.messageId /\ v.userId = a.userId

\* C4: the vote table never holds two rows for one (chatId, messageId,
\* userId); after a voteMessage call the row of its triple has isUpvoted true
\* exactly when the type was 'up', the rows of all other triples are as they
\* were, and nothing but a voteMessage call for its triple writes a row.
C4_OneVotePerTriple ==
  /\ [](\A v, w \in votes : (v.chatId = w.chatId /\ v.messageId = w.messageId
                              /\ v.userId = w.userId) => v = w)
  /\ [][ /\ last'.op = "voteMessage" =>
              LET a == last'.arg IN
              /\ last'.res.ok => \E v \in votes' : OfCall(v, a)
              /\ \A v \in votes' : OfCall(v, a) => (v.isUpvoted <=> a.type = "up")
              /\ {v \in votes : ~OfCall(v, a)} = {v \in votes' : ~OfCall(v, a)}
         /\ last'.op # "voteMessage" => votes' \subseteq votes
       ]_vars

C4_Witness ==
  /\ last.op = "voteMessage"
  /\ last.res.ok
  /\ last.res.path = "update"
  /\ last.arg.type = "down"
  /\ \E v \in votes : OfCall(v, last.arg) /\ ~v.isUpvoted
  /\ \E w \in votes : /\ w.chatId = last.arg.chatId
                      /\ w.messageId = last.arg.messageId
                      /\ w.userId # last.arg.userId
                      /\ w.isUpvoted

\* The cursor the last getChatsByUserId call used: startingAfter when given,
\* else endingBefore, else none.
CursorUsed ==
  IF last.arg.startingAfter # Null THEN last.arg.startingAfter ELSE last.arg.endingBefore

\* The chats of the asked user that pass the cursor filter of the last call.
Eligible ==
  LET a == last.arg IN
  {c \in chats :
     /\ c.userId = a.id
     /\ a.startingAfter # Null =>
          \E k \in chats : k.id = a.startingAfter /\ c.createdAt > k.createdAt
     /\ (a.startingAfter = Null /\ a.endingBefore # Null) =>
          \E k \in chats : k.id = a.endingBefore /\ c.createdAt < k.createdAt}

Returned == {last.res.chats[i] : i \in 1..Len(last.res.chats)}

\* C5: getChatsByUserId returns at most `limit` chats, all stored chats of the
\* asked user, newest first; hasMore is true exactly when more than `limit`
\* chats of the user pass the cursor filter, and then the returned chats are
\* the first `limit` of that order.
C5_PageOfChats ==
  (last.op = "getChatsByUserId" /\ last.res.ok) =>
    LET a == last.arg
        r == last.res
    IN /\ Len(r.chats) <= a.limit
       /\ Cardinality(Returned) = Len(r.chats)
       /\ \A c \in Returned : c \in chats /\ c.userId = a.id
       /\ IsDescending(r.chats)
       /\ r.hasMore <=> Cardinality(Eligible) > a.limit
       /\ r.hasMore =>
            /\ Len(r.chats) = a.limit
            /\ Returned \subseteq Eligible
            /\ \A c \in Returned, d \in Eligible \ Returned : c.createdAt >= d.createdAt

C5_Witness ==
  /\ last.op = "getChatsByUserId"
  /\ last.res.ok
  /\ last.res.hasMore
  /\ last.arg.limit = 1
  /\ Len(last.res.chats) = 1
  /\ \E c \in chats : c.userId # last.arg.id
  /\ \E d \in Eligible : d.createdAt < last.res.chats[1].createdAt

\* C6: with startingAfter every returned chat is strictly newer than the
\* cursor chat; with endingBefore alone every returned chat is strictly
\* older; with both, startingAfter decides and endingBefore plays no part;
\* the cursor chat is never among the returned chats.
C6_CursorBounds ==
  (last.op = "getChatsByUserId" /\ last.res.ok) =>
    LET a == last.arg
        r == last.res
        newer == {c \in chats : c.userId = a.id /\
                    \E k \in chats : k.id = a.startingAfter /\ c.createdAt > k.createdAt}
    IN /\ a.startingAfter # Null =>
            /\ \A c \in Returned :
                 \E k \in chats : k.id = a.startingAfter /\ c.createdAt > k.createdAt
            /\ r.hasMore <=> Cardinality(newer) > a.limit
            /\ ~r.hasMore => Returned = newer
       /\ (a.startingAfter = Null /\ a.endingBefore # Null) =>
            \A c \in Returned :
              \E k \in chats : k.id = a.endingBefore /\ c.createdAt < k.createdAt
       /\ \A c \in Returned : c.id # CursorUsed

C6_Witness ==
  /\ last.op = "getChatsByUserId"
  /\ last.res.ok
  /\ last.arg.startingAfter # Null
  /\ last.arg.endingBefore # Null
  /\ \E c \in Returned : \E k \in chats : k.id = last.arg.endingBefore /\ c.createdAt >= k.createdAt
  /\ \E c \in chats : c.id = last.arg.startingAfter /\ c.userId = last.arg.id

\* C7: a getChatsByUserId call whose cursor names no stored chat fails with
\* the code not_found:database.
C7_MissingCursorNotFound ==
  (last.op = "getChatsByUserId" /\ CursorUsed # Null /\ ~chatExists(CursorUsed)) =>
    last.res = Thrown("not_found:database")

\* C8: a successful deleteChatById leaves no chat, vote, message or stream of
\* that chat id, and the chats, votes, messages and streams of all other
\* chats as they were.
C8_DeleteChatFrame ==
  [][ (last'.op = "deleteChatById" /\ last'.res.ok) =>
        LET id == last'.arg.id IN
        /\ chats' = {c \in chats : c.id # id}
        /\ votes' = {v \in votes : v.chatId # id}
        /\ messages' = {m \in messages : m.chatId # id}
        /\ streams' = {st \in streams : st.chatId # id}
    ]_vars

\* C9: deleteMessagesByChatIdAfterTimestamp removes exactly the messages of
\* the chat created at or after the timestamp and the votes of that chat on
\* them; everything else stays, and when no message matches nothing changes
\* and the result is undefined.
C9_DeleteMessagesFrame ==
  [][ last'.op = "deleteMessagesByChatIdAfterTimestamp" =>
        LET a == last'.arg
            removed == {m \in messages : m.chatId = a.chatId /\ m.createdAt >= a.timestamp}
            removedIds == {m.id : m \in removed}
        IN /\ messages' = messages \ removed
           /\ votes' = {v \in votes : ~(v.chatId = a.chatId /\ v.messageId \in removedIds)}
           /\ chats' = chats /\ streams' = streams
           /\ removed = {} <=> ~last'.res.defined
    ]_vars

\* How many entries of the sequence s equal x.
Occurrences(s, x) == Cardinality({i \in 1..Len(s) : s[i] = x})

IsMarked(run) == run # NoMark
IsSpan(e) == e.tag = "span"

\* C11: a diff mark of type Inserted is rendered as a span of class
\* diff-inserted, one of type Deleted as a span of class diff-deleted, one of
\* any other type as a span with neither class; the counts reported are the
\* numbers of rendered elements with the respective class, so marks of other
\* types add to neither count.
C11_MarksAndCounts ==
  last.op = "countChanges" =>
    LET marks == SelectSeq(last.arg.runs, IsMarked)
        element == last.arg.element
        spans == SelectSeq(element, IsSpan)
    IN /\ Len(spans) = Len(marks)
       /\ \A i \in 1..Len(marks) :
            /\ marks[i] = DiffTypeInserted => spans[i].class = "diff-inserted"
            /\ marks[i] = DiffTypeDeleted => spans[i].class = "diff-deleted"
            /\ marks[i] \notin {DiffTypeInserted, DiffTypeDeleted} =>
                 spans[i].class \notin {"diff-inserted", "diff-deleted"}
       /\ last.res.insertions =
            Cardinality({i \in 1..Len(element) : element[i].class = "diff-inserted"})
       /\ last.res.deletions =
            Cardinality({i \in 1..Len(element) : element[i].class = "diff-deleted"})
       /\ last.res.insertions =
            Cardinality({i \in 1..Len(marks) : marks[i] = DiffTypeInserted})
       /\ last.res.deletions =
            Cardinality({i \in 1..Len(marks) : marks[i] = DiffTypeDeleted})

C11_Witness ==
  /\ last.op = "countChanges"
  /\ Len(last.arg.runs) = 3
  /\ last.arg.runs[1] = DiffTypeInserted
  /\ last.arg.runs[2] = DiffTypeUnchanged
  /\ last.arg.runs[3] = DiffTypeDeleted
  /\ last.res = [insertions |-> 1, deletions |-> 1]

\* The rank the claim gives a message.
StatedRank(m) ==
  CASE m.role = "assistant" /\ (\E k \in 1..Len(m.content) : m.content[k] = "tool-call") -> 0
    [] m.role = "tool" /\ (\E k \in 1..Len(m.content) : m.content[k] = "tool-result") -> 1
    [] m.role = "assistant" /\ ~(\E k \in 1..Len(m.content) : m.content[k] = "tool-call") -> 2
    [] OTHER -> 3

\* C12: the migration takes the messages of a chat (all of them, and no
\* others) in non-decreasing createdAt order, and those of equal createdAt in
\* the order of their rank: assistant with a tool-call, tool with a
\* tool-result, other assistant, everything else.
C12_MigrationOrder ==
  last.op = "migrateChat" =>
    LET all == last.arg.allMessages
        out == last.res.messages
    IN /\ \A m \in MessagesDeprecated :
            Occurrences(out, m) =
              IF m.chatId = last.arg.chatId THEN Occurrences(all, m) ELSE 0
       /\ \A i, j \in 1..Len(out) : i < j =>
            /\ out[i].createdAt <= out[j].createdAt
            /\ out[i].createdAt = out[j].createdAt => StatedRank(out[i]) <= StatedRank(out[j])

C12_Witness ==
  /\ last.op = "migrateChat"
  /\ Len(last.arg.allMessages) = 3
  /\ last.arg.allMessages[1].role = "user"
  /\ last.arg.allMessages[2].role = "tool"
  /\ last.arg.allMessages[3].role = "assistant"
  /\ Len(last.res.messages) = 3
  /\ last.res.messages[1].createdAt = last.res.messages[3].createdAt
  /\ StatedRank(last.res.messages[1]) = 0
  /\ StatedRank(last.res.messages[2]) = 1
  /\ StatedRank(last.res.messages[3]) = 3

====
